---- MODULE Spec2Model ----
(***************************************************************************)
(* Event ingestion and sessionization of databaseProcess.py.               *)
(*                                                                         *)
(* The MySQL store is the record db (the tables as the open connection     *)
(* sees them) together with committed (the rows that are durable).  One    *)
(* action models one call or one iteration of a loop of the source.        *)
(***************************************************************************)
EXTENDS Integers, Sequences, FiniteSets, TLC

VARIABLES
    pc,                   \* position of the caller: which function runs
    db,                   \* tables as seen by the open connection
    committed,            \* tables as committed in the store
    timezones,            \* countries of the timezones table
    ERROR_MESSAGES,       \* the module-level error list
    event_ids,            \* process_file_and_insert: ids seen in this file
    lines_read,           \* lines read so far, over all files
    session_events_list,  \* return value of fetch_session_events
    passes,               \* recompute passes finished since the last load
    before_pass,          \* session_events as they were when the running
                          \* (or last) recompute pass started
    batch_start,          \* inside process_file_and_insert: the committed
                          \* tables as they were at connection.begin()
    called,               \* the functions of databaseProcess called so far
    cache,                \* the cached columns of users, as the connection
                          \* of the repository sees them
    cache_committed,      \* the cached columns of users, as committed
    returned,             \* the last call of a validator, a repository or
                          \* a service: its arguments and what it returned
    queries               \* calls of repositories and services so far

vars == <<pc, db, committed, timezones, ERROR_MESSAGES, event_ids,
          lines_read, session_events_list, passes, before_pass, batch_start,
          called, cache, cache_committed, returned, queries>>

\* What the statistics side reads and writes
statsVars == <<cache, cache_committed, returned, queries>>

----------------------------------------------------------------------------
(* Bounds of the model *)

MaxLines == 3
MaxPasses == 2
\* Calls of the repository and of the services in a run
MaxQueries == 2
\* Requests to the services in a run
MaxRequests == 1
\* Matches in a file of matches
MaxMatches == 2

(* Program constants *)

SessionGap == 60
\* The seconds get_time_spent_in_game counts for a ping
SecondsPerPing == 60
\* The seconds of a day, by which FROM_UNIXTIME groups timestamps
DayLength == 86400

----------------------------------------------------------------------------
(* Values *)

\* SQL NULL in the integer columns session_id and session_duration (no
\* session id and no duration the program computes is negative) and in
\* the string column registration_events.user_id
NULL == -1
NULLSTR == "NULL"
\* Python None, where a pair (bool, str) is expected
None == <<>>
\* A validate method raising exc instead of returning
Raised(exc) == <<exc>>
\* A device_os that is a JSON array, ["iOS"]
JsonArray == "[iOS]"
\* hash(v) succeeds
Hashable(v) == v # JsonArray
\* A goal count that is no int (a JSON number such as 2.5): it stands in
\* the integer fields of a line and is told apart by isinstance alone
NotInt == 999

UserIds == {"u1", "u2"}
TimezoneCountries == {"US", "DE"}
VALID_DEVICE_OS == {"iOS", "Android", "Web"}
REQUIRED_FIELDS == {"event_id", "event_timestamp", "event_type", "event_data"}
EventTypes == {"registration", "session_ping", "match"}

\* One line of the input file.  decodes = FALSE is a line json.loads
\* rejects.  keys are the keys the decoded object and its event_data hold;
\* the field of a key that is not in keys is never read.
Line(dec, keys, id, ts, type, u, c, os, m, h, a, hg, ag) ==
    [decodes |-> dec, keys |-> keys, event_id |-> id, event_timestamp |-> ts,
     event_type |-> type, user_id |-> u, country |-> c, device_os |-> os,
     match_id |-> m, home_user_id |-> h, away_user_id |-> a,
     home_goals_scored |-> hg, away_goals_scored |-> ag,
     session_id |-> 0, session_duration |-> 0]

Has(e, key) == key \in e.keys

Garbage == Line(FALSE, {}, 0, 0, "", "", "", "", "", "", "", 0, 0)

Registration(id, ts, u, c, os) ==
    Line(TRUE, REQUIRED_FIELDS \cup {"user_id", "country", "device_os"},
         id, ts, "registration", u, c, os, "", "", "", 0, 0)

SessionPing(id, ts, u) ==
    Line(TRUE, REQUIRED_FIELDS \cup {"user_id"},
         id, ts, "session_ping", u, "", "", "", "", "", 0, 0)

Match(id, ts, m, h, a, hg, ag) ==
    Line(TRUE, REQUIRED_FIELDS \cup {"match_id", "home_user_id", "away_user_id",
                                     "home_goals_scored", "away_goals_scored"},
         id, ts, "match", "", "", "", m, h, a, hg, ag)

\* The object l without the key field (without event_data: without every
\* key of event_data too)
Without(l, field) ==
    LET keys == IF field = "event_data" THEN (l.keys \cap REQUIRED_FIELDS) \ {field}
                ELSE l.keys \ {field}
        str(k, v) == IF k \in keys THEN v ELSE ""
        int(k, v) == IF k \in keys THEN v ELSE 0
    IN Line(l.decodes, keys, int("event_id", l.event_id),
            int("event_timestamp", l.event_timestamp),
            str("event_type", l.event_type), str("user_id", l.user_id),
            str("country", l.country), str("device_os", l.device_os),
            str("match_id", l.match_id), str("home_user_id", l.home_user_id),
            str("away_user_id", l.away_user_id),
            int("home_goals_scored", l.home_goals_scored),
            int("away_goals_scored", l.away_goals_scored))

----------------------------------------------------------------------------
(* The store *)

EmptyDb ==
    [users |-> <<>>, events |-> {}, registration_events |-> {},
     session_events |-> <<>>, match_events |-> {}]

Range(s) == {s[i] : i \in DOMAIN s}

\* users.num of the row with users.id = u (0 when there is none): the rows
\* of users are kept in the order of their AUTO_INCREMENT key num
UserNum(d, u) ==
    IF \E i \in DOMAIN d.users : d.users[i] = u
    THEN CHOOSE i \in DOMAIN d.users : d.users[i] = u
    ELSE 0

\* users without the UNIQUE key on id: every insert adds a row
InsertIgnoreUser_NoUnique(d, u) ==
    [d EXCEPT !.users = Append(@, u)]

\* INSERT IGNORE INTO users (id): id is UNIQUE, a second insert is dropped
InsertIgnoreUser(d, u) ==
    IF u \in Range(d.users) THEN d
    ELSE [d EXCEPT !.users = Append(@, u)]

EventIdsOf(d) == {r.event_id : r \in d.events}

\* events without its primary key: no insert is refused
DuplicateKey_Never(d, id) == FALSE

\* events.event_id is the PRIMARY KEY: error 1062 on a second insert
DuplicateKey(d, id) == id \in EventIdsOf(d)

EventTimestamp(d, id) ==
    (CHOOSE r \in d.events : r.event_id = id).event_timestamp

----------------------------------------------------------------------------
(* Error entries and exceptions *)

Msg(text, arg) == [text |-> text, arg |-> arg]

\* What a handler, or a statement of insert_event_to_db, ends with: the
\* tables as it leaves them, the exception it raises ("none" when it
\* returns), and the entries it appended to ERROR_MESSAGES itself
Outcome(d, exc, arg, errs) ==
    [db |-> d, exc |-> exc, arg |-> arg, errors |-> errs]

Returns(d) == Outcome(d, "none", "", <<>>)
Raises(d, exc, arg) == Outcome(d, exc, arg, <<>>)

----------------------------------------------------------------------------
(* EventHandler subclasses *)

\* VALID_DEVICE_OS is a set: the test of membership hashes device_os and
\* raises TypeError for a JSON array
RegistrationEventHandler_validate(e) ==
    IF ~Has(e, "country") \/ ~Has(e, "user_id") \/ ~Has(e, "device_os")
    THEN <<FALSE, "Missing fields in event_data for registration">>
    ELSE IF ~Hashable(e.device_os)
    THEN Raised("TypeError")
    ELSE IF e.device_os \notin VALID_DEVICE_OS
    THEN <<FALSE, "Invalid device_os">>
    ELSE <<TRUE, "">>

RegistrationEventHandler_handle(d, tz, e) ==
    IF ~Has(e, "country") THEN Raises(d, "KeyError", "country")
    ELSE IF ~Has(e, "device_os") THEN Raises(d, "KeyError", "device_os")
    ELSE IF e.device_os \notin VALID_DEVICE_OS
    THEN Raises(d, "MySQLError", "1265")      \* ENUM column, strict mode
    ELSE IF e.country \notin tz
    THEN Raises(d, "MySQLError", "1452")      \* FOREIGN KEY (country)
    ELSE Returns([d EXCEPT !.registration_events = @ \cup
            {[event_id |-> e.event_id, country |-> e.country,
              user_id |-> IF Has(e, "user_id") THEN e.user_id ELSE NULLSTR,
              device_os |-> e.device_os]}])

\* Falls off its end, returning None, when user_id is present
SessionEventHandler_validate(e) ==
    IF ~Has(e, "user_id")
    THEN <<FALSE, "Missing user_id in event_data for session_ping">>
    ELSE None

\* the INSERT naming session_id and session_duration of event_data too
SessionEventHandler_handle_StoresSupplied(d, tz, e) ==
    IF ~Has(e, "user_id") \/ UserNum(d, e.user_id) = 0
    THEN Raises(d, "ValueError", "User does not exist")
    ELSE Returns([d EXCEPT !.session_events = Append(@,
            [event_id |-> e.event_id, user_num |-> UserNum(d, e.user_id),
             user_id |-> e.user_id,
             session_id |-> IF Has(e, "session_id") THEN e.session_id ELSE NULL,
             session_duration |-> IF Has(e, "session_duration")
                                  THEN e.session_duration ELSE NULL])])

\* The row is inserted without session_id and session_duration; the
\* SELECT that follows the INSERT reads rows and writes nothing
SessionEventHandler_handle(d, tz, e) ==
    IF ~Has(e, "user_id") \/ UserNum(d, e.user_id) = 0
    THEN Raises(d, "ValueError", "User does not exist")
    ELSE Returns([d EXCEPT !.session_events = Append(@,
            [event_id |-> e.event_id, user_num |-> UserNum(d, e.user_id),
             user_id |-> e.user_id, session_id |-> NULL,
             session_duration |-> NULL])])

\* every goal count taken for an int
IsInt_Unchecked(v) == TRUE

\* isinstance(v, int)
IsInt(v) == v # NotInt

MatchEventHandler_validate(e) ==
    IF ~Has(e, "match_id") \/ ~Has(e, "home_user_id") \/ ~Has(e, "away_user_id")
    THEN <<FALSE, "Missing fields in event_data for match">>
    ELSE IF Has(e, "home_goals_scored")
            /\ (~IsInt(e.home_goals_scored) \/ e.home_goals_scored < 0)
    THEN <<FALSE, "home_goals_scored must be a non-negative integer">>
    ELSE IF Has(e, "away_goals_scored")
            /\ (~IsInt(e.away_goals_scored) \/ e.away_goals_scored < 0)
    THEN <<FALSE, "away_goals_scored must be a non-negative integer">>
    ELSE <<TRUE, "">>

\* the users are taken to be there, whatever the table holds
UsersFound_Unchecked(d, home, away) == 2

\* SELECT COUNT(*) FROM users WHERE id IN (home, away)
UsersFound(d, home, away) == Cardinality({home, away} \cap Range(d.users))

UsersNotFoundMsg == Msg("One or both users not found in the database!", "")

MatchEventHandler_handle(d, tz, e) ==
    IF ~Has(e, "home_user_id") THEN Raises(d, "KeyError", "home_user_id")
    ELSE IF ~Has(e, "away_user_id") THEN Raises(d, "KeyError", "away_user_id")
    ELSE IF UsersFound(d, e.home_user_id, e.away_user_id) < 2
    THEN Outcome(d, "none", "", <<UsersNotFoundMsg>>)
    ELSE IF ~Has(e, "match_id") THEN Raises(d, "KeyError", "match_id")
    ELSE Returns([d EXCEPT !.match_events = @ \cup
            {[event_id |-> e.event_id, match_id |-> e.match_id,
              home_user_id |-> e.home_user_id,
              away_user_id |-> e.away_user_id,
              home_goals_scored |-> IF Has(e, "home_goals_scored") THEN e.home_goals_scored ELSE 0,
              away_goals_scored |-> IF Has(e, "away_goals_scored") THEN e.away_goals_scored ELSE 0]}])

validate(e) ==
    CASE e.event_type = "registration" -> RegistrationEventHandler_validate(e)
      [] e.event_type = "session_ping" -> SessionEventHandler_validate(e)
      [] e.event_type = "match" -> MatchEventHandler_validate(e)

handle(d, tz, e) ==
    CASE e.event_type = "registration" -> RegistrationEventHandler_handle(d, tz, e)
      [] e.event_type = "session_ping" -> SessionEventHandler_handle(d, tz, e)
      [] e.event_type = "match" -> MatchEventHandler_handle(d, tz, e)

----------------------------------------------------------------------------
(* insert_event_to_db *)

EventRow(e) ==
    [event_id |-> e.event_id, event_type |-> e.event_type,
     event_timestamp |-> e.event_timestamp]

\* INSERT IGNORE INTO users, for an event that is no match and whose
\* event_data holds a (non-empty) user_id
WithUser(d, e) ==
    IF e.event_type # "match" /\ Has(e, "user_id") /\ e.user_id # ""
    THEN InsertIgnoreUser(d, e.user_id)
    ELSE d

\* handler.validate(event_data) is called and its result is dropped; the
\* handler's handle runs whatever validate returned, unless it raised
ValidateAndHandle(d, tz, e) ==
    IF validate(e) = Raised("TypeError")
    THEN Raises(d, "TypeError", "unhashable type")
    ELSE handle(d, tz, e)

\* The statements of the try block, up to the exception that ends them or
\* to the early return or the commit.  commit tells whether
\* connection.commit() was reached.
TryBlock(d, tz, e) ==
    IF ~Has(e, "event_type")
    THEN [out |-> Raises(d, "KeyError", "event_type"), commit |-> FALSE]
    ELSE IF e.event_type # "match" /\ ~Has(e, "event_data")
    THEN [out |-> Raises(d, "KeyError", "event_data"), commit |-> FALSE]
    ELSE LET d1 == WithUser(d, e) IN
    IF ~Has(e, "event_timestamp")
    THEN [out |-> Raises(d1, "KeyError", "event_timestamp"), commit |-> FALSE]
    ELSE IF e.event_type \notin EventTypes
    THEN [out |-> Raises(d1, "MySQLError", "1265"), commit |-> FALSE]
    ELSE IF DuplicateKey(d1, e.event_id)
    THEN [out |-> Raises(d1, "MySQLError", "1062"), commit |-> FALSE]
    ELSE LET d2 == [d1 EXCEPT !.events = @ \cup {EventRow(e)}] IN
    IF \E field \in REQUIRED_FIELDS : ~Has(e, field)
    THEN [out |-> Returns(d2), commit |-> FALSE]
    ELSE LET o == ValidateAndHandle(d2, tz, e)
         IN [out |-> o, commit |-> o.exc = "none"]

\* The except clauses: the entries they append to ERROR_MESSAGES
ExceptClauses(exc, arg) ==
    CASE exc = "none" -> <<>>
      [] exc = "MySQLError" ->
            IF arg \in {"1452", "1265"}
            THEN <<Msg("Error inserting event to database... Invalid value for os", "")>>
            ELSE <<>>
      [] OTHER -> <<Msg("Error inserting event:", arg)>>

\* except pymysql.MySQLError and except Exception: the exceptions the two
\* clauses catch (every exception of the try block is an Exception)
CaughtInInsert(exc) ==
    exc \in {"MySQLError", "KeyError", "ValueError", "TypeError"}

\* The tables as the call leaves them in the open transaction, the entries
\* it appends to ERROR_MESSAGES, whether it committed, and the exception
\* that leaves the call ("none" when it returns)
insert_event_to_db(d, tz, e) ==
    LET t == TryBlock(d, tz, e)
        caught == t.out.exc = "none" \/ CaughtInInsert(t.out.exc)
    IN [db |-> t.out.db,
        errors |-> t.out.errors \o
                   (IF caught THEN ExceptClauses(t.out.exc, t.out.arg) ELSE <<>>),
        commit |-> t.commit,
        raised |-> IF caught THEN "none" ELSE t.out.exc]

----------------------------------------------------------------------------
(* process_file_and_insert *)

DuplicateMsg(id) == Msg("Skiped insertion of event: duplicate", ToString(id))

\* the loop with its clause except json.JSONDecodeError alone
CaughtInLoop_DecodeErrorOnly(exc) ==
    exc \in {"JSONDecodeError"}

\* except json.JSONDecodeError and except Exception inside the loop: the
\* exceptions of an iteration that do not leave the loop
CaughtInLoop(exc) ==
    exc \in {"JSONDecodeError", "MySQLError", "KeyError", "ValueError"}

\* What the loop's except clauses make of exception exc: the entry they
\* append and the exception that leaves the loop
LoopExcept(d, ids, exc, text, arg, errs) ==
    [db |-> d, commit |-> FALSE, event_ids |-> ids,
     errors |-> IF CaughtInLoop(exc) THEN errs \o <<Msg(text, arg)>> ELSE errs,
     raised |-> IF CaughtInLoop(exc) THEN "none" ELSE exc]

\* the loop without its test of event_ids
SeenInFile_Never(ids, id) == FALSE

\* event["event_id"] in event_ids
SeenInFile(ids, id) == id \in ids

\* One iteration of the loop over the lines of the file
LoopBody(d, tz, ids, l) ==
    IF ~l.decodes
    THEN LoopExcept(d, ids, "JSONDecodeError", "Error decoding JSON:", "", <<>>)
    ELSE IF ~Has(l, "event_id")
    THEN LoopExcept(d, ids, "KeyError", "Error processing event:", "event_id", <<>>)
    ELSE IF SeenInFile(ids, l.event_id)
    THEN [db |-> d, errors |-> <<DuplicateMsg(l.event_id)>>,
          commit |-> FALSE, event_ids |-> ids, raised |-> "none"]
    ELSE LET r == insert_event_to_db(d, tz, l)
         IN IF r.raised = "none"
            THEN [db |-> r.db, errors |-> r.errors, commit |-> r.commit,
                  event_ids |-> ids \cup {l.event_id}, raised |-> "none"]
            ELSE LoopExcept(r.db, ids \cup {l.event_id}, r.raised,
                            "Error processing event:", r.raised, r.errors)

----------------------------------------------------------------------------
(* Batch recompute: update_session_duration *)

Rows(d) == DOMAIN d.session_events

\* Rows i and j are in one window partition: PARTITION BY user_num,
\* session_id (two NULL session_ids fall into one partition)
SamePartition(d, i, j) ==
    /\ d.session_events[i].user_num = d.session_events[j].user_num
    /\ d.session_events[i].session_id = d.session_events[j].session_id

RowTimestamp(d, i) == EventTimestamp(d, d.session_events[i].event_id)

\* Rows of the partition of i with the timestamp of i
Peers(d, i) ==
    {j \in Rows(d) : SamePartition(d, i, j) /\ RowTimestamp(d, j) = RowTimestamp(d, i)}

\* ORDER BY event_timestamp leaves the order of rows with equal timestamps
\* open: each choice of the row that comes first among its peers is a
\* possible order
FirstOfPeers(d) ==
    {F \in SUBSET Rows(d) : \A i \in Rows(d) : Cardinality(F \cap Peers(d, i)) = 1}

Max(S) == CHOOSE x \in S : \A y \in S : y <= x

\* TIMESTAMPDIFF(SECOND, LAG(event_timestamp) OVER (...), event_timestamp)
SessionDurationCalculated(d, F, i) ==
    LET earlier == {RowTimestamp(d, j) : j \in
                       {k \in Rows(d) : /\ SamePartition(d, i, k)
                                        /\ RowTimestamp(d, k) < RowTimestamp(d, i)}}
    IN IF i \notin F THEN 0
       ELSE IF earlier = {} THEN NULL
       ELSE RowTimestamp(d, i) - Max(earlier)

update_session_duration(d, F) ==
    [d EXCEPT !.session_events =
        [i \in Rows(d) |->
            [@[i] EXCEPT !.session_duration = SessionDurationCalculated(d, F, i)]]]

----------------------------------------------------------------------------
(* Batch recompute: fetch_session_events *)

\* SELECT ... FROM session_events, read in the order of the primary key,
\* with a NULL session_duration replaced by 0
SessionEventsList(d) ==
    [i \in Rows(d) |->
        [user_num |-> d.session_events[i].user_num,
         session_id |-> d.session_events[i].session_id,
         session_event_id |-> i,
         session_duration |->
            IF d.session_events[i].session_duration = NULL THEN 0
            ELSE d.session_events[i].session_duration]]

\* the counter is not advanced
NextSessionId_NoIncrement(maximum_session_id) == maximum_session_id

\* the counter advanced by two
NextSessionId_SkipsOne(maximum_session_id) == maximum_session_id + 2

\* maximum_session_id += 1
NextSessionId(maximum_session_id) == maximum_session_id + 1

\* previous_session_pings maps a user_num to the index of the user's last
\* event before i (0: the user is not in the dictionary)
RECURSIVE AssignSessionIds(_, _, _, _)
AssignSessionIds(list, previous_session_pings, maximum_session_id, i) ==
    IF i > Len(list) THEN list
    ELSE LET user_num == list[i].user_num
             new == \/ list[i].session_duration > SessionGap
                    \/ previous_session_pings[user_num] = 0
             id == IF new THEN NextSessionId(maximum_session_id)
                   ELSE list[previous_session_pings[user_num]].session_id
         IN AssignSessionIds(
                [list EXCEPT ![i].session_id = id],
                [previous_session_pings EXCEPT ![user_num] = i],
                IF new THEN id ELSE maximum_session_id,
                i + 1)

\* The list fetch_session_events returns; on an empty table
\* session_events_list[0] raises IndexError
fetch_session_events(d) ==
    LET list == SessionEventsList(d)
        nums == {list[i].user_num : i \in DOMAIN list}
    IN AssignSessionIds(
           [list EXCEPT ![1].session_id = 1],
           [n \in nums |-> IF n = list[1].user_num THEN 1 ELSE 0],
           1, 2)

(* Batch recompute: update_session_ids_in_db *)

\* the UPDATE writing the session_id into user_num as well
update_session_ids_in_db_WritesUserNum(d, list) ==
    [d EXCEPT !.session_events =
        [i \in Rows(d) |->
            IF \E k \in DOMAIN list : list[k].session_event_id = i
            THEN LET id == list[CHOOSE k \in DOMAIN list :
                                   list[k].session_event_id = i].session_id
                 IN [@[i] EXCEPT !.session_id = id, !.user_num = id]
            ELSE @[i]]]

update_session_ids_in_db(d, list) ==
    [d EXCEPT !.session_events =
        [i \in Rows(d) |->
            IF \E k \in DOMAIN list : list[k].session_event_id = i
            THEN [@[i] EXCEPT !.session_id =
                    list[CHOOSE k \in DOMAIN list : list[k].session_event_id = i].session_id]
            ELSE @[i]]]

----------------------------------------------------------------------------
(* Inputs *)

EventIds == {1, 2}
PingTimestamps == {0, 60, 121}

RegistrationLines(id) ==
    {Registration(id, 0, "u1", "US", "iOS"),
     Registration(id, 0, "u1", "US", "PlayStation"),
     Registration(id, 0, "u1", "XX", "iOS"),
     Without(Registration(id, 0, "u1", "US", "iOS"), "user_id")}

SessionPingLines(id) ==
    {SessionPing(id, 0, "u1"), SessionPing(id, 100, "u1"),
     SessionPing(id, 0, "u2")}
    \cup {Without(SessionPing(id, 0, "u1"), k) :
            k \in REQUIRED_FIELDS \cup {"user_id"}}

MatchLines(id) ==
    {Match(id, 0, "m1", "u1", "u2", 1, 0),
     Match(id, 0, "m1", "u1", "u2", -1, 0),
     Match(id, 0, "m1", "u1", "u1", 1, 0),
     [Match(id, 0, "m1", "u1", "u2", 1, 0)
         EXCEPT !.keys = @ \cup {"user_id"}, !.user_id = "u2"]}
    \cup {Without(Match(id, 0, "m1", "u1", "u2", 1, 0), k) :
            k \in {"event_data", "match_id", "home_goals_scored"}}

\* The lines a file may hold
Lines ==
    {Garbage} \cup UNION {RegistrationLines(id) \cup SessionPingLines(id)
                            \cup MatchLines(id) : id \in EventIds}

----------------------------------------------------------------------------
(* Actions *)

\* The columns num_of_sessions, time_spent_in_game, total_points_home and
\* total_points_away of users: NULL in every row that is inserted (a user
\* without a users row keeps NULL: an UPDATE for it changes no row)
EmptyCache ==
    [u \in UserIds |->
        [num_of_sessions |-> NULL, time_spent_in_game |-> NULL,
         total_points_home |-> NULL, total_points_away |-> NULL]]

\* No validator, repository or service was called yet
NoCall == [op |-> "none"]

\* The state shared by every way of starting the program
InitStore ==
    /\ db = EmptyDb
    /\ committed = EmptyDb
    /\ timezones = {}
    /\ ERROR_MESSAGES = <<>>
    /\ event_ids = {}
    /\ lines_read = 0
    /\ session_events_list = <<>>
    /\ passes = 0
    /\ before_pass = <<>>
    /\ batch_start = EmptyDb
    /\ called = {}
    /\ cache = EmptyCache
    /\ cache_committed = EmptyCache
    /\ queries = 0

Init ==
    /\ pc = "start"
    /\ returned = NoCall
    /\ InitStore

\* drop_and_create_tables: every table is dropped and created empty
DropAndCreateTables ==
    /\ pc = "start"
    /\ pc' = "created"
    /\ db' = EmptyDb
    /\ committed' = EmptyDb
    /\ timezones' = {}
    /\ cache' = EmptyCache
    /\ cache_committed' = EmptyCache
    /\ called' = called \cup {"drop_and_create_tables"}
    /\ UNCHANGED <<ERROR_MESSAGES, event_ids, lines_read, session_events_list,
                   passes, before_pass, batch_start, returned, queries>>

\* load_timezones_to_db
LoadTimezonesToDb ==
    /\ pc = "created"
    /\ pc' = "idle"
    /\ timezones' = TimezoneCountries
    /\ called' = called \cup {"load_timezones_to_db"}
    /\ UNCHANGED <<db, committed, ERROR_MESSAGES, event_ids, lines_read,
                   session_events_list, passes, before_pass, batch_start>>
    /\ UNCHANGED statsVars

\* process_file_and_insert, up to the loop: event_ids = set(),
\* connection.begin()
BeginFile ==
    /\ pc = "idle"
    /\ lines_read < MaxLines
    /\ pc' = "loading"
    /\ event_ids' = {}
    /\ passes' = 0
    /\ batch_start' = committed
    /\ called' = called \cup {"process_file_and_insert"}
    /\ UNCHANGED <<db, committed, timezones, ERROR_MESSAGES, lines_read,
                   session_events_list, before_pass>>
    /\ UNCHANGED statsVars

FileErrorMsg == Msg("Error processing the file:", "")

\* One iteration of the loop, reading line l.  An exception that leaves
\* the loop reaches the outer except clause: an entry and a rollback.
ProcessLine(l) ==
    /\ pc = "loading"
    /\ LET r == LoopBody(db, timezones, event_ids, l)
       IN IF r.raised = "none"
          THEN /\ db' = r.db
               /\ committed' = (IF r.commit THEN r.db ELSE committed)
               /\ ERROR_MESSAGES' = ERROR_MESSAGES \o r.errors
               /\ event_ids' = r.event_ids
               /\ pc' = "loading"
               /\ batch_start' = batch_start
          ELSE /\ db' = committed
               /\ committed' = committed
               /\ ERROR_MESSAGES' = (ERROR_MESSAGES \o r.errors) \o <<FileErrorMsg>>
               /\ event_ids' = r.event_ids
               /\ pc' = "idle"
               /\ batch_start' = EmptyDb
    /\ lines_read' = lines_read + 1
    /\ UNCHANGED <<timezones, session_events_list, passes, before_pass, called>>
    /\ UNCHANGED statsVars

ReadLine ==
    /\ lines_read < MaxLines
    /\ \E l \in Lines : ProcessLine(l)

\* A session_ping of a known user under an event_id that was not used yet
ReadPing ==
    /\ lines_read < MaxLines
    /\ \E u \in UserIds, ts \in PingTimestamps :
          ProcessLine(SessionPing(Cardinality(db.events) + 1, ts, u))

\* The file is read to its end: connection.commit()
EndOfFile ==
    /\ pc = "loading"
    /\ pc' = "idle"
    /\ committed' = db
    /\ batch_start' = EmptyDb
    /\ UNCHANGED <<db, timezones, ERROR_MESSAGES, event_ids, lines_read,
                   session_events_list, passes, before_pass, called>>
    /\ UNCHANGED statsVars

\* the outer except clause starting the list anew with its own entry
FileError_ReportsAlone ==
    /\ pc = "loading"
    /\ lines_read < MaxLines
    /\ lines_read' = lines_read + 1
    /\ pc' = "idle"
    /\ ERROR_MESSAGES' = <<FileErrorMsg>>
    /\ db' = committed
    /\ batch_start' = EmptyDb
    /\ UNCHANGED <<committed, timezones, event_ids,
                   session_events_list, passes, before_pass, called>>
    /\ UNCHANGED statsVars

\* open() or the reading of a line raises: the outer except clause
FileError ==
    /\ pc = "loading"
    /\ lines_read < MaxLines
    /\ lines_read' = lines_read + 1
    /\ pc' = "idle"
    /\ ERROR_MESSAGES' = Append(ERROR_MESSAGES, FileErrorMsg)
    /\ db' = committed
    /\ batch_start' = EmptyDb
    /\ UNCHANGED <<committed, timezones, event_ids,
                   session_events_list, passes, before_pass, called>>
    /\ UNCHANGED statsVars

UpdateSessionDuration ==
    /\ pc = "idle"
    /\ passes < MaxPasses
    /\ \E F \in FirstOfPeers(committed) :
          db' = update_session_duration(committed, F)
    /\ committed' = db'
    /\ before_pass' = committed.session_events
    /\ pc' = "durations"
    /\ called' = called \cup {"update_session_duration"}
    /\ UNCHANGED <<timezones, ERROR_MESSAGES, event_ids, lines_read,
                   session_events_list, passes, batch_start>>
    /\ UNCHANGED statsVars

FetchSessionEvents ==
    /\ pc = "durations"
    /\ IF Len(committed.session_events) = 0
       THEN /\ pc' = "IndexError"
            /\ UNCHANGED session_events_list
       ELSE /\ pc' = "fetched"
            /\ session_events_list' = fetch_session_events(committed)
    /\ called' = called \cup {"fetch_session_events"}
    /\ UNCHANGED <<db, committed, timezones, ERROR_MESSAGES, event_ids,
                   lines_read, passes, before_pass, batch_start>>
    /\ UNCHANGED statsVars

UpdateSessionIdsInDb ==
    /\ pc = "fetched"
    /\ db' = update_session_ids_in_db(committed, session_events_list)
    /\ committed' = db'
    /\ passes' = passes + 1
    /\ pc' = "idle"
    /\ called' = called \cup {"update_session_ids_in_db"}
    /\ UNCHANGED <<timezones, ERROR_MESSAGES, event_ids, lines_read,
                   session_events_list, before_pass, batch_start>>
    /\ UNCHANGED statsVars

Next ==
    \/ DropAndCreateTables
    \/ LoadTimezonesToDb
    \/ BeginFile
    \/ ReadLine
    \/ EndOfFile
    \/ FileError
    \/ UpdateSessionDuration
    \/ FetchSessionEvents
    \/ UpdateSessionIdsInDb

Spec == Init /\ [][Next]_vars

\* Loads only, of files that can be read to their end: a file is finite,
\* so the loop over its lines comes to its end
NextBatch ==
    \/ DropAndCreateTables
    \/ LoadTimezonesToDb
    \/ BeginFile
    \/ ReadLine
    \/ EndOfFile

SpecBatch == Init /\ [][NextBatch]_vars /\ WF_vars(EndOfFile)

\* The calls of initialize_database, in the order of its statements
CallOrder ==
    <<"drop_and_create_tables", "load_timezones_to_db", "process_file_and_insert",
      "update_session_duration", "fetch_session_events", "update_session_ids_in_db">>

\* initialize_database: process_file_and_insert(file_path), called once
InitializeProcessFile ==
    /\ "process_file_and_insert" \notin called
    /\ BeginFile

\* update_session_duration called wherever no file is being read
InitializeUpdateSessionDuration_Unordered == UpdateSessionDuration

\* initialize_database: update_session_duration(), the statement after
\* process_file_and_insert(file_path)
InitializeUpdateSessionDuration ==
    /\ "process_file_and_insert" \in called
    /\ "update_session_duration" \notin called
    /\ UpdateSessionDuration

\* One call of initialize_database
NextInit ==
    \/ DropAndCreateTables
    \/ LoadTimezonesToDb
    \/ InitializeProcessFile
    \/ ReadLine
    \/ EndOfFile
    \/ FileError
    \/ InitializeUpdateSessionDuration
    \/ FetchSessionEvents
    \/ UpdateSessionIdsInDb

SpecInit == Init /\ [][NextInit]_vars

----------------------------------------------------------------------------
(* UserRepository *)

\* date=None
NoDate == NULL
\* The days a request can name as 'YYYY-MM-DD', counted from 1970-01-01
Dates == {0, 1}
DateArgs == {NoDate} \cup Dates

\* DATE(event_timestamp) of the INT column: MySQL reads the number as
\* YYMMDDhhmmss, which is no date for a unix timestamp in seconds of the
\* years the data is from (a month above 12), so the value is NULL
DATE(ts) == NULL

\* DATE(FROM_UNIXTIME(event_timestamp))
DateFromUnixtime(ts) == ts \div DayLength

\* A cursor result: the value returned (or the exception raised), the
\* users columns as the connection sees them afterwards, and whether the
\* connection was committed
Result(value, c, commit) == [value |-> value, raised |-> FALSE, cache |-> c, commit |-> commit]
QueryError(c) == [value |-> NULL, raised |-> TRUE, cache |-> c, commit |-> FALSE]

\* UPDATE users SET col = v WHERE id = u
UpdateUsers(c, d, u, col, v) ==
    IF u \in Range(d.users) THEN [c EXCEPT ![u][col] = v] ELSE c

\* The session_events rows with user_id = u
PingsOf(d, u) == {i \in Rows(d) : d.session_events[i].user_id = u}

\* COUNT(DISTINCT session_id) of the rows of u, of the date when one is
\* given (NULL is not counted)
CountDistinctSessions(d, u, date) ==
    Cardinality({d.session_events[i].session_id :
                    i \in {j \in PingsOf(d, u) :
                              date = NoDate \/ DATE(RowTimestamp(d, j)) = date}}
                \ {NULL})

get_sessions_for_user(c, d, u, date) ==
    IF c[u].num_of_sessions # NULL
    THEN Result(c[u].num_of_sessions, c, FALSE)
    ELSE LET session_count == CountDistinctSessions(d, u, date)
         IN Result(session_count,
                   UpdateUsers(c, d, u, "num_of_sessions", session_count), FALSE)

\* COUNT(se.session_id) of the rows of u, of the date when one is given:
\* the rows with a session_id
CountSessionRows(d, u, date) ==
    Cardinality({i \in PingsOf(d, u) :
                    /\ d.session_events[i].session_id # NULL
                    /\ date = NoDate \/ DateFromUnixtime(RowTimestamp(d, i)) = date})

get_time_spent_in_game(c, d, u, date) ==
    IF c[u].time_spent_in_game # NULL
    THEN Result(c[u].time_spent_in_game, c, FALSE)
    ELSE LET sessions == IF c[u].num_of_sessions # NULL
                         THEN c[u].num_of_sessions ELSE 0
             session_count == CountSessionRows(d, u, date)
             total_time_in_seconds == (session_count - sessions) * SecondsPerPing
         IN Result(total_time_in_seconds,
                   UpdateUsers(c, d, u, "time_spent_in_game", total_time_in_seconds),
                   FALSE)

RECURSIVE Sum(_, _)
\* SUM of f over the rows S
Sum(f, S) ==
    IF S = {} THEN 0
    ELSE LET r == CHOOSE x \in S : TRUE
         IN f[r] + Sum(f, S \ {r})

\* The CASE expression of the home query for a row r
HomePoints(r, u) ==
    IF r.home_user_id = u /\ r.home_goals_scored > r.away_goals_scored THEN 3
    ELSE IF r.home_goals_scored = r.away_goals_scored THEN 1
    ELSE 0

\* The CASE expression of the away query for a row r
AwayPoints(r, u) ==
    IF r.away_user_id = u /\ r.away_goals_scored > r.home_goals_scored THEN 3
    ELSE IF r.home_goals_scored = r.away_goals_scored THEN 1
    ELSE 0

\* the home query without its WHERE clause: a draw of any match counts
TotalPointsHome_EveryMatch(d, u) ==
    LET S == d.match_events
    IN Sum([r \in S |-> HomePoints(r, u)], S)

TotalPointsHome(d, u) ==
    LET S == {r \in d.match_events : r.home_user_id = u}
    IN Sum([r \in S |-> HomePoints(r, u)], S)

TotalPointsAway(d, u) ==
    LET S == {r \in d.match_events : r.away_user_id = u}
    IN Sum([r \in S |-> AwayPoints(r, u)], S)

\* the UPDATE setting total_points_home alone
get_total_points_HomeOnly(c, d, u, date) ==
    IF c[u].total_points_home # NULL /\ c[u].total_points_away # NULL
    THEN Result(<<c[u].total_points_home, c[u].total_points_away>>, c, FALSE)
    ELSE IF date # NoDate THEN QueryError(c)
    ELSE Result(<<TotalPointsHome(d, u), TotalPointsAway(d, u)>>,
                UpdateUsers(c, d, u, "total_points_home", TotalPointsHome(d, u)),
                TRUE)

\* With a date the query names match_events.event_timestamp, a column the
\* table does not have: the execute raises.  Without one both columns are
\* written and the connection is committed.
get_total_points(c, d, u, date) ==
    IF c[u].total_points_home # NULL /\ c[u].total_points_away # NULL
    THEN Result(<<c[u].total_points_home, c[u].total_points_away>>, c, FALSE)
    ELSE IF date # NoDate THEN QueryError(c)
    ELSE LET total_points_home == TotalPointsHome(d, u)
             total_points_away == TotalPointsAway(d, u)
         IN Result(<<total_points_home, total_points_away>>,
                   UpdateUsers(UpdateUsers(c, d, u, "total_points_home", total_points_home),
                               d, u, "total_points_away", total_points_away),
                   TRUE)

Min(S) == CHOOSE x \in S : \A y \in S : x <= y

\* The matches of u, by match_id, last event_timestamp minus first.  With
\* a date the rows are filtered by DATE(e.event_timestamp): none is left.
get_match_time(d, u, date) ==
    LET rows == {r \in d.match_events : r.home_user_id = u \/ r.away_user_id = u}
        times(m) == {EventTimestamp(d, r.event_id) : r \in {x \in rows : x.match_id = m}}
        ids == {r.match_id : r \in rows}
    IN IF date # NoDate THEN 0
       ELSE Sum([m \in ids |-> Max(times(m)) - Min(times(m))], ids)

\* The registration_events rows of u that join events and timezones
RegistrationsOf(d, tz, u) ==
    {r \in d.registration_events :
        /\ r.user_id = u
        /\ r.country \in tz
        /\ r.event_id \in EventIdsOf(d)}

\* (event_timestamp, country, timezone) of a registration of u, None when
\* there is none; the timezone is named by its country
get_user_by_id(d, tz, u) ==
    IF RegistrationsOf(d, tz, u) = {} THEN None
    ELSE LET r == CHOOSE x \in RegistrationsOf(d, tz, u) : TRUE
         IN <<EventTimestamp(d, r.event_id), r.country, r.country>>

\* The same of the latest registration of u
get_last_login_date(d, tz, u) ==
    IF RegistrationsOf(d, tz, u) = {} THEN None
    ELSE LET r == CHOOSE x \in RegistrationsOf(d, tz, u) :
                     \A y \in RegistrationsOf(d, tz, u) :
                        EventTimestamp(d, y.event_id) <= EventTimestamp(d, x.event_id)
         IN <<EventTimestamp(d, r.event_id), r.country, r.country>>

----------------------------------------------------------------------------
(* Calculators *)

\* round(100 * a / b, 2), in hundredths of a percent
Percentage(a, b) == (a * 20000 + b) \div (2 * b)

\* calculate(user_id, date) of the user calculator called name, on the
\* connection whose view of the cached columns is c
UserCalculate(name, c, d, tz, u, date) ==
    CASE name = "UserCountryInfo" ->
            LET user_data == get_user_by_id(d, tz, u)
            IN IF user_data = None THEN QueryError(c)
               ELSE Result([country |-> user_data[2],
                            registration_datetime |-> user_data[1],
                            timezone |-> user_data[3]], c, FALSE)
      [] name = "LastLoginInfo" ->
            LET data == get_last_login_date(d, tz, u)
            IN IF data = None THEN QueryError(c)
               ELSE Result([days_since_last_login |->
                               IF data[1] = 0 THEN NULL
                               ELSE DateFromUnixtime(data[1])], c, FALSE)
      [] name = "UserSessionCount" ->
            LET r == get_sessions_for_user(c, d, u, date)
            IN Result([sessions |-> r.value], r.cache, r.commit)
      [] name = "GameTimeSpent" ->
            LET r == get_time_spent_in_game(c, d, u, date)
            IN Result([time_spent_in_game |-> r.value], r.cache, r.commit)
      [] name = "PointsCalculator" ->
            LET r == get_total_points(c, d, u, date)
            IN IF r.raised THEN r
               ELSE Result([total_points_home |-> r.value[1],
                            total_points_away |-> r.value[2]], r.cache, r.commit)
      [] name = "MatchParticipationCalculator" ->
            LET match_time == get_match_time(d, u, date)
                r == get_time_spent_in_game(c, d, u, date)
            IN Result([match_time_percentage |->
                          IF r.value > 0 THEN Percentage(match_time, r.value) ELSE 0],
                      r.cache, r.commit)

----------------------------------------------------------------------------
(* UserStatsFactory, UserService *)

\* list(all_calculators.values()) of UserStatsFactory
UserCalculators ==
    <<"UserCountryInfo", "LastLoginInfo", "UserSessionCount", "GameTimeSpent",
      "PointsCalculator", "MatchParticipationCalculator">>

\* The keys of the dictionary a user calculator returns
ResultKeys ==
    [UserCountryInfo |-> {"country", "registration_datetime", "timezone"},
     LastLoginInfo |-> {"days_since_last_login"},
     UserSessionCount |-> {"sessions"},
     GameTimeSpent |-> {"time_spent_in_game"},
     PointsCalculator |-> {"total_points_home", "total_points_away"},
     MatchParticipationCalculator |-> {"match_time_percentage"},
     DailyActiveUsers |-> {"active_users"},
     TotalSessions |-> {"number_of_sessions"},
     AvgSessionsPerUser |-> {"avg_sessions_for_users"},
     UsersWithMostPoints |-> {"user_with_most_points"}]

\* f"{calc_name}_error"
ErrorKey ==
    [UserCountryInfo |-> "UserCountryInfo_error",
     LastLoginInfo |-> "LastLoginInfo_error",
     UserSessionCount |-> "UserSessionCount_error",
     GameTimeSpent |-> "GameTimeSpent_error",
     PointsCalculator |-> "PointsCalculator_error",
     MatchParticipationCalculator |-> "MatchParticipationCalculator_error",
     DailyActiveUsers |-> "DailyActiveUsers_error",
     TotalSessions |-> "TotalSessions_error",
     AvgSessionsPerUser |-> "AvgSessionsPerUser_error",
     UsersWithMostPoints |-> "UsersWithMostPoints_error"]

\* stats = {}
EmptyDict == [k \in {} |-> NULL]

\* stats.update(result)
DictUpdate(stats, result) ==
    [k \in DOMAIN stats \cup DOMAIN result |->
        IF k \in DOMAIN result THEN result[k] ELSE stats[k]]

\* stats[f"{calc_name}_error"] = str(e)
DictError(stats, name) ==
    [k \in DOMAIN stats \cup {ErrorKey[name]} |->
        IF k = ErrorKey[name] THEN "str(e)" ELSE stats[k]]

\* a loop without its try statement: no exception is caught
ExceptException_Uncaught == FALSE

\* except Exception as e
ExceptException == TRUE

\* The state of a service call: the dictionary so far, the calculators
\* run so far, those of them that raised, the connection's view and what
\* it committed
ServiceStart(c) ==
    [stats |-> EmptyDict, ran |-> <<>>, failed |-> {}, raised |-> FALSE,
     cache |-> c, committed |-> c]

\* One turn of the loop over the calculators, r being what calculate did
ServiceStep(acc, name, r) ==
    IF r.raised /\ ~ExceptException
    THEN [acc EXCEPT !.raised = TRUE, !.ran = Append(@, name)]
    ELSE [stats |-> IF r.raised THEN DictError(acc.stats, name)
                    ELSE DictUpdate(acc.stats, r.value),
          ran |-> Append(acc.ran, name),
          failed |-> IF r.raised THEN acc.failed \cup {name} ELSE acc.failed,
          raised |-> FALSE,
          cache |-> r.cache,
          committed |-> IF r.commit THEN r.cache ELSE acc.committed]

RECURSIVE UserServiceLoop(_, _, _, _, _, _, _)
\* for calculator in calculators, in get_user_stats; the calculators in
\* F fail for a reason outside the program (the connection is lost)
UserServiceLoop(calcs, acc, d, tz, u, date, F) ==
    IF calcs = <<>> \/ acc.raised THEN acc
    ELSE LET name == Head(calcs)
             r == IF name \in F THEN QueryError(acc.cache)
                  ELSE UserCalculate(name, acc.cache, d, tz, u, date)
         IN UserServiceLoop(Tail(calcs), ServiceStep(acc, name, r), d, tz, u, date, F)

\* UserService().get_user_stats(user_id, date), on a connection of its own
get_user_stats(cc, d, tz, u, date, F) ==
    UserServiceLoop(UserCalculators, ServiceStart(cc), d, tz, u, date, F)

----------------------------------------------------------------------------
(* GameRepository, GameStatsFactory, GameService *)

\* With a date the query names session_events.event_timestamp, a column
\* the table does not have: the execute raises
get_daily_active_users(c, d, date) ==
    IF date # NoDate THEN QueryError(c)
    ELSE Result(Cardinality({d.session_events[i].user_id : i \in Rows(d)}), c, FALSE)

\* MAX(session_id) of the rows whose session_event_id, the AUTO_INCREMENT
\* key, is the event_id of an events row; NULL when no row is left, as
\* with a date, compared with DATE(events.event_timestamp)
get_total_sessions(c, d, date) ==
    LET ids == {d.session_events[i].session_id :
                   i \in {j \in Rows(d) : j \in EventIdsOf(d) /\ date = NoDate}} \ {NULL}
    IN Result(IF ids = {} THEN NULL ELSE Max(ids), c, FALSE)

RECURSIVE SessionsOfUsers(_, _, _, _)
\* total_sessions += self.user_repo.get_sessions_for_user(user_id, date),
\* for the users of order: the total and the connection's view afterwards
SessionsOfUsers(order, c, d, date) ==
    IF order = <<>> THEN [total |-> 0, cache |-> c]
    ELSE LET r == get_sessions_for_user(c, d, Head(order), date)
             rest == SessionsOfUsers(Tail(order), r.cache, d, date)
         IN [total |-> r.value + rest.total, cache |-> rest.cache]

\* round(total_sessions / active_users_count, 2), in hundredths
Average(total, count) == (total * 200 + count) \div (2 * count)

\* order: the users with a ping, as SELECT DISTINCT user_id returns them
get_avg_sessions_per_user(c, d, date, order) ==
    LET active == get_daily_active_users(c, d, date)
    IN IF active.raised THEN active
       ELSE IF active.value = 0 THEN Result(0, c, FALSE)
       ELSE LET s == SessionsOfUsers(order, c, d, date)
            IN Result(Average(s.total, active.value), s.cache, FALSE)

RECURSIVE TopUsers(_, _, _, _, _)
\* The loop of get_users_with_most_points over the users of order
TopUsers(order, c, d, max_points, top_users) ==
    IF order = <<>> THEN [top_users |-> top_users, max_points |-> max_points, cache |-> c]
    ELSE LET r == get_total_points(c, d, Head(order), NoDate)
             user_points == r.value[1] + r.value[2]
         IN IF user_points > max_points
            THEN TopUsers(Tail(order), r.cache, d, user_points, <<Head(order)>>)
            ELSE IF user_points = max_points
            THEN TopUsers(Tail(order), r.cache, d, max_points, Append(top_users, Head(order)))
            ELSE TopUsers(Tail(order), r.cache, d, max_points, top_users)

\* With a date the query names users.event_timestamp, a column the table
\* does not have: the execute raises.  order: the users as SELECT
\* DISTINCT id returns them.  get_total_points commits after each user.
get_users_with_most_points(c, d, date, order) ==
    IF date # NoDate THEN QueryError(c)
    ELSE LET t == TopUsers(order, c, d, 0, <<>>)
         IN Result(<<t.top_users, t.max_points>>, t.cache, order # <<>>)

\* calculate(date) of the game calculator called name; c is the view of
\* the connection of the GameRepository's own UserRepository
GameCalculate(name, c, d, date, pingOrder, userOrder) ==
    CASE name = "DailyActiveUsers" ->
            LET r == get_daily_active_users(c, d, date)
            IN IF r.raised THEN r ELSE Result([active_users |-> r.value], c, FALSE)
      [] name = "TotalSessions" ->
            Result([number_of_sessions |-> get_total_sessions(c, d, date).value], c, FALSE)
      [] name = "AvgSessionsPerUser" ->
            LET r == get_avg_sessions_per_user(c, d, date, pingOrder)
            IN IF r.raised THEN r
               ELSE Result([avg_sessions_for_users |-> r.value], r.cache, FALSE)
      [] name = "UsersWithMostPoints" ->
            LET r == get_users_with_most_points(c, d, date, userOrder)
                users == r.value[1]
            IN IF r.raised THEN r
               \* {'user_with_most_points': user for user in users}: the
               \* last user of the list, no key for an empty list
               ELSE Result(IF users = <<>> THEN EmptyDict
                           ELSE [user_with_most_points |-> users[Len(users)]],
                           r.cache, r.commit)

\* list(all_calculators.values()) of GameStatsFactory
GameCalculators ==
    <<"DailyActiveUsers", "TotalSessions", "AvgSessionsPerUser", "UsersWithMostPoints">>

RECURSIVE GameServiceLoop(_, _, _, _, _, _, _)
\* for calculator in calculators, in get_game_stats
GameServiceLoop(calcs, acc, d, date, F, pingOrder, userOrder) ==
    IF calcs = <<>> \/ acc.raised THEN acc
    ELSE LET name == Head(calcs)
             r == IF name \in F THEN QueryError(acc.cache)
                  ELSE GameCalculate(name, acc.cache, d, date, pingOrder, userOrder)
         IN GameServiceLoop(Tail(calcs), ServiceStep(acc, name, r), d, date, F,
                            pingOrder, userOrder)

\* GameService().get_game_stats(date), on connections of its own
get_game_stats(cc, d, date, F, pingOrder, userOrder) ==
    GameServiceLoop(GameCalculators, ServiceStart(cc), d, date, F, pingOrder, userOrder)

\* The orders in which a SELECT DISTINCT can return the values S
Orders(S) ==
    {o \in UNION {[1..n -> S] : n \in {Cardinality(S)}} :
        \A i, j \in DOMAIN o : i # j => o[i] # o[j]}

----------------------------------------------------------------------------
(* Requests *)

\* Lines of a file for the statistics: a registration, pings (one of them
\* with a session_id and a session_duration of the caller's) and a match,
\* each under an event_id that was not used yet
StatsLines(id) ==
    {Registration(id, 0, "u1", "US", "iOS"),
     SessionPing(id, 0, "u1"),
     SessionPing(id, 121, "u1"),
     [SessionPing(id, 0, "u2") EXCEPT !.keys = @ \cup {"session_id", "session_duration"},
                                      !.session_id = 7, !.session_duration = 5],
     Match(id, 0, "m1", "u1", "u2", 1, 0)}

ReadStatsLine ==
    /\ lines_read < MaxLines
    /\ \E l \in StatsLines(Cardinality(db.events) + 1) : ProcessLine(l)

storeVars ==
    <<db, committed, timezones, ERROR_MESSAGES, event_ids, lines_read,
      session_events_list, passes, before_pass, batch_start, called>>

\* initialize_database has returned or raised: the server answers requests
Serving ==
    /\ "fetch_session_events" \in called
    /\ pc \in {"idle", "IndexError"}

\* A UserRepository is created: a new connection, which sees what was
\* committed; what the connection before it wrote and did not commit is
\* rolled back
NewUserRepository ==
    /\ Serving
    /\ cache # cache_committed
    /\ cache' = cache_committed
    /\ returned' = NoCall
    /\ UNCHANGED <<pc, queries, cache_committed>>
    /\ UNCHANGED storeVars

\* A call of a method of the UserRepository: r is what it did
RepositoryCall(op, u, date, r) ==
    /\ Serving
    /\ queries < MaxQueries
    /\ queries' = queries + 1
    /\ cache' = r.cache
    /\ cache_committed' = (IF r.commit THEN r.cache ELSE cache_committed)
    /\ returned' = [op |-> op, user |-> u, date |-> date, value |-> r.value,
                    raised |-> r.raised]
    /\ UNCHANGED pc
    /\ UNCHANGED storeVars

GetSessionsForUser ==
    \E u \in UserIds, date \in DateArgs :
        RepositoryCall("get_sessions_for_user", u, date,
                       get_sessions_for_user(cache, committed, u, date))

GetTimeSpentInGame ==
    \E u \in UserIds, date \in DateArgs :
        RepositoryCall("get_time_spent_in_game", u, date,
                       get_time_spent_in_game(cache, committed, u, date))

GetTotalPoints ==
    \E u \in UserIds, date \in DateArgs :
        RepositoryCall("get_total_points", u, date,
                       get_total_points(cache, committed, u, date))

\* One call of initialize_database on a file for the statistics, then
\* calls of the UserRepository
NextStats ==
    \/ DropAndCreateTables
    \/ LoadTimezonesToDb
    \/ InitializeProcessFile
    \/ ReadStatsLine
    \/ EndOfFile
    \/ InitializeUpdateSessionDuration
    \/ FetchSessionEvents
    \/ UpdateSessionIdsInDb
    \/ NewUserRepository
    \/ GetSessionsForUser
    \/ GetTimeSpentInGame
    \/ GetTotalPoints

SpecStats == Init /\ [][NextStats]_vars

\* The sets of calculators that fail in one request for a reason outside
\* the program: none, or one of them
Failures(calcs) == {{}} \cup {{name} : name \in Range(calcs)}

\* A request served by a service: s is what the loop over the calculators
\* did on the service's own connection, closed when the request is done
ServiceCall(op, u, date, s) ==
    /\ Serving
    /\ queries < MaxRequests
    /\ queries' = queries + 1
    /\ cache' = s.committed
    /\ cache_committed' = s.committed
    /\ returned' = [op |-> op, user |-> u, date |-> date, value |-> s.stats,
                    raised |-> s.raised, ran |-> s.ran, failed |-> s.failed]
    /\ UNCHANGED pc
    /\ UNCHANGED storeVars

\* The orders in which the users with a ping, and the users, can be
\* returned to get_game_stats; with a date the queries raise before
PingOrders(d, date) ==
    IF date # NoDate THEN {<<>>}
    ELSE Orders({d.session_events[i].user_id : i \in Rows(d)})

UserOrders(d, date) ==
    IF date # NoDate THEN {<<>>}
    ELSE Orders(Range(d.users))

\* GET /user_stats
GetUserStats ==
    \E u \in UserIds, date \in DateArgs, F \in Failures(UserCalculators) :
        ServiceCall("get_user_stats", u, date,
                    get_user_stats(cache_committed, committed, timezones, u, date, F))

\* GET /game_stats
GetGameStats ==
    \E date \in DateArgs, F \in Failures(GameCalculators) :
      \E pingOrder \in PingOrders(committed, date), userOrder \in UserOrders(committed, date) :
        ServiceCall("get_game_stats", "", date,
                    get_game_stats(cache_committed, committed, date, F, pingOrder, userOrder))

\* Lines of a file for the services: a registration, pings of two users
\* and a match, each under an event_id that was not used yet
ServiceLines(id) ==
    {Registration(id, 0, "u1", "US", "iOS"),
     SessionPing(id, 0, "u1"),
     SessionPing(id, 0, "u2"),
     Match(id, 0, "m1", "u1", "u2", 1, 0)}

ReadServiceLine ==
    /\ lines_read < MaxLines
    /\ \E l \in ServiceLines(Cardinality(db.events) + 1) : ProcessLine(l)

\* One call of initialize_database on a file for the services, then
\* requests to the two services
NextService ==
    \/ DropAndCreateTables
    \/ LoadTimezonesToDb
    \/ InitializeProcessFile
    \/ ReadServiceLine
    \/ EndOfFile
    \/ InitializeUpdateSessionDuration
    \/ FetchSessionEvents
    \/ UpdateSessionIdsInDb
    \/ GetUserStats
    \/ GetGameStats

SpecService == Init /\ [][NextService]_vars

----------------------------------------------------------------------------
(* get_total_points over stores of matches *)

\* The users of the matches: the users with a cached row, and one more
Players == UserIds \cup {"u3"}

\* home_goals_scored and away_goals_scored of a match
Goals == {0, 1}

\* A file of a ping of every player and then n matches, of any players
\* and goals, under event_ids of their own
MatchFiles(n) ==
    {<<SessionPing(1, 0, "u1"), SessionPing(2, 0, "u2"), SessionPing(3, 0, "u3")>> \o
       [i \in 1..n |-> Match(3 + i, 0, "m1", m[i][1], m[i][2], m[i][3], m[i][4])] :
     m \in [1..n -> Players \X Players \X Goals \X Goals]}

RECURSIVE Inserted(_, _)
\* The tables after insert_event_to_db of every line of file, on d
Inserted(file, d) ==
    IF file = <<>> THEN d
    ELSE Inserted(Tail(file), insert_event_to_db(d, TimezoneCountries, Head(file)).db)

\* process_file_and_insert has read and committed a file of matches
InitPoints ==
    /\ pc = "idle"
    /\ returned = NoCall
    /\ \E n \in 0..MaxMatches : \E file \in MatchFiles(n) :
          /\ db = Inserted(file, EmptyDb)
          /\ committed = db
          /\ lines_read = Len(file)
          /\ event_ids = {file[i].event_id : i \in DOMAIN file}
    /\ timezones = TimezoneCountries
    /\ ERROR_MESSAGES = <<>>
    /\ session_events_list = <<>>
    /\ passes = 0
    /\ before_pass = <<>>
    /\ batch_start = EmptyDb
    /\ called = {"drop_and_create_tables", "load_timezones_to_db",
                 "process_file_and_insert"}
    /\ cache = EmptyCache
    /\ cache_committed = EmptyCache
    /\ queries = 0

\* UserRepository().get_total_points(user_id), without a date
TotalPointsOfUser ==
    /\ queries < MaxRequests
    /\ queries' = queries + 1
    /\ \E u \in UserIds :
          LET r == get_total_points(cache, committed, u, NoDate)
          IN /\ cache' = r.cache
             /\ cache_committed' = (IF r.commit THEN r.cache ELSE cache_committed)
             /\ returned' = [op |-> "get_total_points", user |-> u, date |-> NoDate,
                             value |-> r.value, raised |-> r.raised]
    /\ UNCHANGED pc
    /\ UNCHANGED storeVars

NextPoints == TotalPointsOfUser

SpecPoints == InitPoints /\ [][NextPoints]_vars

\* The event_data objects handed to the validate methods
RegistrationDatas ==
    {[Registration(1, 0, "u1", "US", os) EXCEPT !.keys = REQUIRED_FIELDS \cup K] :
        K \in SUBSET {"country", "user_id", "device_os"},
        os \in VALID_DEVICE_OS \cup {"PlayStation", JsonArray}}

SessionPingDatas ==
    {[SessionPing(1, 0, "u1") EXCEPT !.keys = REQUIRED_FIELDS \cup K] :
        K \in SUBSET {"user_id"}}

GoalValues == {-1, 0, 2, NotInt}

MatchDatas ==
    {[Match(1, 0, "m1", "u1", "u2", hg, ag) EXCEPT !.keys = REQUIRED_FIELDS \cup K] :
        K \in SUBSET {"match_id", "home_user_id", "away_user_id",
                      "home_goals_scored", "away_goals_scored"},
        hg \in GoalValues, ag \in GoalValues}

EventDatas == RegistrationDatas \cup SessionPingDatas \cup MatchDatas

\* A handler is about to validate the event_data arg
InitValidate ==
    /\ pc = "validate"
    /\ returned \in {[op |-> "validate", arg |-> e, value |-> None] : e \in EventDatas}
    /\ InitStore

\* handler.validate(event_data) of the handler of the event's type
Validate ==
    /\ pc = "validate"
    /\ pc' = "validated"
    /\ returned' = [returned EXCEPT !.value = validate(returned.arg)]
    /\ UNCHANGED <<db, committed, timezones, ERROR_MESSAGES, event_ids,
                   lines_read, session_events_list, passes, before_pass,
                   batch_start, called, cache, cache_committed, queries>>

NextValidate == Validate

SpecValidate == InitValidate /\ [][NextValidate]_vars

\* Loads of session_pings only, with more timestamps
NextSessions ==
    \/ DropAndCreateTables
    \/ LoadTimezonesToDb
    \/ BeginFile
    \/ ReadPing
    \/ EndOfFile
    \/ UpdateSessionDuration
    \/ FetchSessionEvents
    \/ UpdateSessionIdsInDb

SpecSessions == Init /\ [][NextSessions]_vars

----------------------------------------------------------------------------
(* Properties of ingestion *)

\* The extension row of events row r is in the tables d
HasExtension(d, r) ==
    CASE r.event_type = "registration" ->
            \E x \in d.registration_events : x.event_id = r.event_id
      [] r.event_type = "session_ping" ->
            \E i \in Rows(d) : d.session_events[i].event_id = r.event_id
      [] r.event_type = "match" ->
            \E x \in d.match_events : x.event_id = r.event_id
      [] OTHER -> FALSE

\* Some extension table of d holds a row for event id
ExtensionRowFor(d, id) ==
    \/ \E x \in d.registration_events : x.event_id = id
    \/ \E i \in Rows(d) : d.session_events[i].event_id = id
    \/ \E x \in d.match_events : x.event_id = id

RowsWithId(d, id) == {r \in d.events : r.event_id = id}

\* Line l decodes to an object with the four envelope keys
WellFormed(l) == l.decodes /\ REQUIRED_FIELDS \subseteq l.keys

\* C1: every committed events row has its extension row (the committed
\* tables are what the store holds at each commit inside
\* process_file_and_insert and after it returned).
C1_EveryEventHasExtension ==
    \A r \in committed.events : HasExtension(committed, r)

\* C2: the events table never holds two rows with one event_id, and in
\* every state inside the loop, whatever well-formed line with an event_id
\* of the table comes next, its iteration raises nothing out of the loop
\* (the loop goes on to the next line), keeps the events rows and commits
\* nothing new.
C2_OneRowPerEventId ==
    /\ \A id \in EventIds :
          /\ Cardinality(RowsWithId(db, id)) <= 1
          /\ Cardinality(RowsWithId(committed, id)) <= 1
    /\ pc = "loading" =>
          \A l \in Lines :
              (WellFormed(l) /\ l.event_id \in EventIdsOf(db))
                  => LET r == LoopBody(db, timezones, event_ids, l)
                     IN /\ r.raised = "none"
                        /\ r.db.events = db.events
                        /\ ~r.commit

\* A second insert of a stored event_id was attempted and swallowed: one
\* events row, no error entry, yet two users (the second users row is what
\* the swallowed attempt left), and the file was read to its end
C2_Witness ==
    /\ pc = "idle"
    /\ lines_read = 2
    /\ Cardinality(db.events) = 1
    /\ Len(db.users) = 2
    /\ ERROR_MESSAGES = <<>>

\* C8: the iteration that reads an event_id whose row is in the events
\* table appends exactly the duplicate entry for it and leaves one row for
\* that event_id.
C8_DuplicateReportedOnce ==
    [][\A l \in Lines :
        (WellFormed(l) /\ l.event_id \in EventIdsOf(db) /\ ProcessLine(l))
            => /\ ERROR_MESSAGES' = Append(ERROR_MESSAGES, DuplicateMsg(l.event_id))
               /\ Cardinality(RowsWithId(db', l.event_id)) = 1]_vars

\* C9: the iteration that reads an event_id whose row is in the events
\* table changes no row of users, events, registration_events,
\* session_events, match_events.
C9_DuplicateIsNoOp ==
    [][\A l \in Lines :
        (WellFormed(l) /\ l.event_id \in EventIdsOf(db) /\ ProcessLine(l))
            => db' = db]_vars

\* validate reports failure for l: it returns (False, reason)
ValidateFails(l) ==
    /\ WellFormed(l)
    /\ validate(l) # None
    /\ ~validate(l)[1]

\* C10: the iteration that reads an event with a new event_id for which
\* validate reports failure stores no events row and no extension row for
\* it, appends an error entry, and stays in the loop.
C10_InvalidEventSkipped ==
    [][\A l \in Lines :
        (ValidateFails(l) /\ l.event_id \notin EventIdsOf(db)
            /\ l.event_id \notin event_ids /\ ProcessLine(l))
            => /\ l.event_id \notin EventIdsOf(db')
               /\ ~ExtensionRowFor(db', l.event_id)
               /\ Len(ERROR_MESSAGES') = Len(ERROR_MESSAGES) + 1
               /\ pc' = "loading"]_vars

\* Line l is a match event with a new event_id that names its two users
NewMatch(l) ==
    /\ WellFormed(l)
    /\ l.event_type = "match"
    /\ Has(l, "home_user_id") /\ Has(l, "away_user_id")
    /\ l.event_id \notin event_ids
    /\ l.event_id \notin EventIdsOf(db)

\* C11: every match_events row names two users that are in users, and in
\* every state inside the loop, whatever match event (with a new event_id)
\* naming a user that is not in users comes next, its iteration inserts no
\* match_events row, appends exactly one error entry and raises nothing
\* out of the loop.
C11_MatchNeedsBothUsers ==
    /\ \A x \in db.match_events \cup committed.match_events :
          {x.home_user_id, x.away_user_id} \subseteq Range(db.users)
    /\ \A x \in committed.match_events :
          {x.home_user_id, x.away_user_id} \subseteq Range(committed.users)
    /\ pc = "loading" =>
          \A l \in Lines :
              (NewMatch(l) /\ ~({l.home_user_id, l.away_user_id} \subseteq Range(db.users)))
                  => LET r == LoopBody(db, timezones, event_ids, l)
                     IN /\ r.db.match_events = db.match_events
                        /\ Len(r.errors) = 1
                        /\ r.raised = "none"

\* A match naming an unknown user was read first and reported, it left no
\* match_events row, and the line after it was stored with its extension
\* row
C11_Witness ==
    /\ lines_read = 2
    /\ ERROR_MESSAGES = <<UsersNotFoundMsg>>
    /\ db.match_events = {}
    /\ \E r \in db.events : r.event_type = "match"
    /\ \E r \in db.events : r.event_type # "match" /\ HasExtension(db, r)

\* C12: every match_events row has non-negative goal counts, and in every
\* state inside the loop the match_events row that a match event without
\* home_goals_scored adds carries 0 for it.
C12_GoalsNonNegative ==
    /\ \A x \in db.match_events :
          x.home_goals_scored >= 0 /\ x.away_goals_scored >= 0
    /\ pc = "loading" =>
          \A l \in Lines :
              (NewMatch(l) /\ ~Has(l, "home_goals_scored"))
                  => \A x \in LoopBody(db, timezones, event_ids, l).db.match_events
                                 \ db.match_events :
                         x.home_goals_scored = 0

\* The step is the outer except clause of process_file_and_insert: the
\* loop is left with the entry of the clause appended
RolledBack ==
    /\ pc = "loading"
    /\ pc' = "idle"
    /\ Len(ERROR_MESSAGES') > Len(ERROR_MESSAGES)
    /\ ERROR_MESSAGES'[Len(ERROR_MESSAGES')] = FileErrorMsg

\* C13: the rollback of the outer except clause leaves the tables, those
\* the connection sees and those committed, as they were when the batch
\* began.
C13_RollbackRestoresBatchStart ==
    [][RolledBack => (db' = batch_start /\ committed' = batch_start)]_vars

\* C14: in every state inside the loop, whatever line comes next, its
\* iteration raises nothing out of the loop; the loop is left only by the
\* commit of what the transaction holds, without a file-level entry; and
\* every batch that is begun comes to that end.
C14_BatchRunsToCommit ==
    /\ [](pc = "loading" =>
            \A l \in Lines : LoopBody(db, timezones, event_ids, l).raised = "none")
    /\ [][(pc = "loading" /\ pc' # "loading")
            => (pc' = "idle" /\ committed' = db /\ db' = db
                /\ ERROR_MESSAGES' = ERROR_MESSAGES)]_vars
    /\ (pc = "loading") ~> (pc = "idle")

\* A batch of an undecodable line, an event naming an unknown user and an
\* event without event_id was read to its end and committed
C14_Witness ==
    /\ pc = "idle"
    /\ lines_read = 3
    /\ event_ids # {}
    /\ committed = db
    /\ Len(ERROR_MESSAGES) = 3
    /\ \E i \in 1..3 : ERROR_MESSAGES[i].text = "Error decoding JSON:"
    /\ \E i \in 1..3 : ERROR_MESSAGES[i] = UsersNotFoundMsg
    /\ \E i \in 1..3 : ERROR_MESSAGES[i] = Msg("Error processing event:", "event_id")

\* Line l ends up stored in d: its events row and its extension row
Persisted(d, l) ==
    /\ l.decodes
    /\ Has(l, "event_id")
    /\ l.event_id \in EventIdsOf(d)
    /\ ExtensionRowFor(d, l.event_id)

\* C15: the iteration that reads a line which does not end up stored with
\* its events row and its extension row appends at least one entry to the
\* error list.
C15_NoSilentDrop ==
    [][\A l \in Lines :
        (~Persisted(db', l) /\ ProcessLine(l))
            => Len(ERROR_MESSAGES') > Len(ERROR_MESSAGES)]_vars

\* C16: every step leaves the entries of the error list where they are and
\* adds its own entries behind them, so the entries of a line stand before
\* the entries of every line read after it.
C16_ErrorListAppendOnly ==
    [][/\ Len(ERROR_MESSAGES') >= Len(ERROR_MESSAGES)
       /\ SubSeq(ERROR_MESSAGES', 1, Len(ERROR_MESSAGES)) = ERROR_MESSAGES]_vars

\* An undecodable line and, after it, a match naming an unknown user were
\* read and the file failed after them: the three entries stand in that
\* order
C16_Witness ==
    /\ pc = "idle"
    /\ ERROR_MESSAGES = <<Msg("Error decoding JSON:", ""), UsersNotFoundMsg,
                          FileErrorMsg>>

\* C17: the iteration that reads an object lacking one of the four
\* envelope fields appends an error entry and changes no row of any table.
C17_MissingEnvelopeFieldSkipped ==
    [][\A l \in Lines :
        (l.decodes /\ ~WellFormed(l) /\ ProcessLine(l))
            => /\ db' = db
               /\ Len(ERROR_MESSAGES') > Len(ERROR_MESSAGES)]_vars

C22_RepeatInFileNeverReachesStore ==
    pc = "loading" =>
        \A l \in Lines :
            (l.decodes /\ Has(l, "event_id"))
                => LET r == LoopBody(db, timezones, event_ids, l)
                   IN /\ r.event_ids = event_ids \cup {l.event_id}
                      /\ l.event_id \in event_ids
                            => /\ r.db = db
                               /\ ~r.commit
                               /\ r.raised = "none"
                               /\ r.errors = <<DuplicateMsg(l.event_id)>>

\* The first line with event_id 1 was rejected (its events row is not
\* stored) and the second line with event_id 1 was reported as duplicate
C22_Witness ==
    /\ pc = "loading"
    /\ lines_read = 2
    /\ event_ids = {1}
    /\ db.events = {}
    /\ Len(ERROR_MESSAGES) = 2
    /\ ERROR_MESSAGES[2] = DuplicateMsg(1)

----------------------------------------------------------------------------
(* Properties of batch recompute *)

UserOf(i) == db.session_events[i].user_num
Sid(i) == db.session_events[i].session_id
Dur(i) == db.session_events[i].session_duration
Ts(i) == RowTimestamp(db, i)

RowsOf(u) == {i \in Rows(db) : UserOf(i) = u}
UserNums == {UserOf(i) : i \in Rows(db)}

\* The pings of user u have pairwise different timestamps
StrictlyOrdered(u) ==
    \A i, j \in RowsOf(u) : i # j => Ts(i) # Ts(j)

\* j is the ping of the user of i that follows i in timestamp order
Follows(i, j) ==
    /\ UserOf(i) = UserOf(j)
    /\ Ts(i) < Ts(j)
    /\ ~\E k \in RowsOf(UserOf(i)) : Ts(i) < Ts(k) /\ Ts(k) < Ts(j)

\* i is its user's earliest ping
Earliest(i) == \A k \in RowsOf(UserOf(i)) : Ts(i) <= Ts(k)

\* i and j lie in one session window of the sorted pings of their user: no
\* two consecutive pings from the earlier to the later are more than
\* SessionGap apart
SameWindow(i, j) ==
    /\ UserOf(i) = UserOf(j)
    /\ \A a, b \in RowsOf(UserOf(i)) :
          (/\ Follows(a, b)
           /\ Ts(a) >= (IF Ts(i) <= Ts(j) THEN Ts(i) ELSE Ts(j))
           /\ Ts(b) <= (IF Ts(i) <= Ts(j) THEN Ts(j) ELSE Ts(i)))
             => Ts(b) - Ts(a) <= SessionGap

\* The first recompute pass after a load has finished
AfterRecompute == pc = "idle" /\ passes = 1

\* C3: after load and batch recompute, along the timestamps of a user the
\* session_id never decreases, and it grows from a ping to the next one
\* exactly when they are more than 60 apart.
C3_IdsFollowGaps ==
    AfterRecompute =>
        \A i, j \in Rows(db) :
            (StrictlyOrdered(UserOf(i)) /\ Follows(i, j))
                => /\ Sid(j) >= Sid(i)
                   /\ (Sid(j) > Sid(i)) <=> (Ts(j) - Ts(i) > SessionGap)

MaxSidBefore(i) == Max({0} \cup {Sid(k) : k \in 1..(i - 1)})

C5_DurationNullAtSessionStart ==
    AfterRecompute =>
        \A j \in Rows(db) :
            StrictlyOrdered(UserOf(j)) =>
                /\ Earliest(j) => Dur(j) = NULL
                /\ \A i \in Rows(db) :
                      Follows(i, j) =>
                          Dur(j) = IF Ts(j) - Ts(i) > SessionGap THEN NULL
                                   ELSE Ts(j) - Ts(i)

\* C6: a recompute pass that follows a recompute pass, no file loaded in
\* between, leaves session_events as the pass before it left them (stated
\* for tables in which no user has two pings with one timestamp, where the
\* order of the rows in the window is fixed).
C6_RecomputeIdempotent ==
    (pc = "idle" /\ passes >= 2 /\ \A u \in UserNums : StrictlyOrdered(u))
        => db.session_events = before_pass

\* C7: after load and batch recompute, two pings of a user carry the same
\* session_id exactly when they lie in one window of the user's pings
\* sorted by timestamp, whatever the order the pings arrived in.
C7_GroupingIgnoresArrivalOrder ==
    AfterRecompute =>
        \A i, j \in Rows(db) :
            (UserOf(i) = UserOf(j) /\ StrictlyOrdered(UserOf(i)))
                => ((Sid(i) = Sid(j)) <=> SameWindow(i, j))

\* The last row of session_events of user u in d (0: there is none)
PriorPing(d, u) ==
    Max({0} \cup {i \in Rows(d) : d.session_events[i].user_id = u})

\* The session_id that the rule of incremental assignment gives a ping of
\* user u at ts arriving at the tables d
IncrementalSessionId(d, u, ts) ==
    LET p == PriorPing(d, u)
    IN IF p = 0 THEN 1
       ELSE IF ts - RowTimestamp(d, p) <= SessionGap
       THEN d.session_events[p].session_id
       ELSE d.session_events[p].session_id + 1

\* C18: the iteration that stores a session_ping leaves its session_events
\* row with the session_id of incremental assignment: 1 without a prior
\* ping of the user, else the prior ping's session_id, plus 1 when the gap
\* exceeds 60.
C18_IncrementalAssignment ==
    [][\A u \in UserIds, ts \in PingTimestamps :
        ProcessLine(SessionPing(Cardinality(db.events) + 1, ts, u))
            => /\ Len(db'.session_events) = Len(db.session_events) + 1
               /\ db'.session_events[Len(db'.session_events)].session_id
                     = IncrementalSessionId(db, u, ts)]_vars

\* The pings of every user arrived in strictly increasing timestamp order
InTimestampOrder ==
    \A i, j \in Rows(db) :
        (i < j /\ UserOf(i) = UserOf(j)) => Ts(i) < Ts(j)

\* C19: when the pings of every user arrived in strictly increasing
\* timestamp order, every session_events row has after the recompute pass
\* the session_id it had after ingestion, when the pass started.
C19_IncrementalAgreesWithRecompute ==
    (AfterRecompute /\ InTimestampOrder) =>
        \A i \in Rows(db) : Sid(i) = before_pass[i].session_id

----------------------------------------------------------------------------
(* Properties of initialize_database *)

\* The functions called so far are the first n of the call order
CalledPrefix == \E n \in 0..Len(CallOrder) : called = {CallOrder[i] : i \in 1..n}

\* The session_ids of the session_events rows of d
SessionIds(d) == [i \in 1..Len(d.session_events) |-> d.session_events[i].session_id]

\* C23: during one call of initialize_database the functions called so
\* far are always a prefix of reset, timezones load, ingestion, recompute
\* (durations, fetch, session ids); a line is read only with the
\* timezones loaded and before any recompute function was called; and a
\* session_id is written only by update_session_ids_in_db, with the file
\* left and no line read afterwards.
C23_InitializeOrder ==
    /\ [](CalledPrefix)
    /\ []((pc = "loading" \/ lines_read > 0)
            => /\ "load_timezones_to_db" \in called
               /\ timezones = TimezoneCountries)
    /\ [](pc = "loading" => "update_session_duration" \notin called)
    /\ [][/\ lines_read' # lines_read
             => /\ pc = "loading"
                /\ "update_session_duration" \notin called
          /\ SessionIds(db') # SessionIds(db) /\ Len(db'.session_events) = Len(db.session_events)
             => /\ pc = "fetched"
                /\ "process_file_and_insert" \in called
                /\ called' = {CallOrder[i] : i \in 1..Len(CallOrder)}]_vars

\* A file with a stored ping was read and the recompute that followed
\* gave its row a session_id
C23_Witness ==
    /\ called = {CallOrder[i] : i \in 1..Len(CallOrder)}
    /\ pc = "idle"
    /\ lines_read >= 2
    /\ \E i \in 1..Len(committed.session_events) :
          committed.session_events[i].session_id # NULL

----------------------------------------------------------------------------
(* Properties of the statistics *)

\* From table t to table t2 of session_events a session_id is written
\* only by the step of update_session_ids_in_db, a session_duration only
\* by the step of update_session_duration, and a new row has neither
WrittenByRecomputeOnly(t, t2, idsStep, durationsStep) ==
    /\ \A i \in DOMAIN t \cap DOMAIN t2 :
          /\ t2[i].session_id # t[i].session_id => idsStep
          /\ t2[i].session_duration # t[i].session_duration => durationsStep
    /\ \A i \in DOMAIN t2 \ DOMAIN t :
          /\ t2[i].session_id = NULL
          /\ t2[i].session_duration = NULL

\* C21: in every step, of ingestion (a ping that brings a session_id and
\* a session_duration of its own included), of recompute and of the
\* repository's queries, the session_id of a stored row changes only in
\* the step of update_session_ids_in_db, its session_duration only in the
\* step of update_session_duration, and a row that is new has both NULL.
C21_SessionColumnsWrittenByRecomputeOnly ==
    [][/\ WrittenByRecomputeOnly(db.session_events, db'.session_events,
                                 pc = "fetched", pc = "idle" /\ pc' = "durations")
       /\ WrittenByRecomputeOnly(committed.session_events, committed'.session_events,
                                 pc = "fetched", pc = "idle" /\ pc' = "durations")]_vars

\* The ping that brought session_id 7 and session_duration 5 is stored
\* with the values of the recompute, and a query was answered after it
C21_Witness ==
    /\ returned.op = "get_time_spent_in_game"
    /\ \E i \in Rows(committed) :
          /\ committed.session_events[i].user_id = "u2"
          /\ committed.session_events[i].session_id \notin {NULL, 7}
          /\ committed.session_events[i].session_duration # 5

\* The distinct session_ids of the pings of u on the day date, of all its
\* pings when no date is given
DistinctSessionsOn(d, u, date) ==
    Cardinality({d.session_events[i].session_id :
                    i \in {j \in PingsOf(d, u) :
                              date = NoDate \/ DateFromUnixtime(RowTimestamp(d, j)) = date}}
                \ {NULL})

\* C28: the value get_sessions_for_user(user, date) returned is the
\* number of distinct session_ids of the user's pings on that date, or of
\* all its pings when no date was given.
C28_SessionCountForDate ==
    returned.op = "get_sessions_for_user"
        => returned.value = DistinctSessionsOn(committed, returned.user, returned.date)

\* C29: a call of get_time_spent_in_game without a date for a user whose
\* time_spent_in_game is not cached returns (rows of the user minus
\* distinct sessions of the user) times 60, whatever was called before.
C29_TimeSpentWhateverWasCalled ==
    [][(/\ queries' = queries + 1
        /\ returned'.op = "get_time_spent_in_game"
        /\ returned'.date = NoDate
        /\ cache[returned'.user].time_spent_in_game = NULL)
          => returned'.value =
                (Cardinality(PingsOf(committed, returned'.user))
                   - DistinctSessionsOn(committed, returned'.user, NoDate)) * 60]_vars

\* The cached columns of the committed users row of u
Cached(u) == cache_committed[u]

\* The four cached columns of every users row are all NULL or all
\* non-NULL
AllOrNothing ==
    \A u \in UserIds :
        \/ /\ Cached(u).num_of_sessions = NULL
           /\ Cached(u).time_spent_in_game = NULL
           /\ Cached(u).total_points_home = NULL
           /\ Cached(u).total_points_away = NULL
        \/ /\ Cached(u).num_of_sessions # NULL
           /\ Cached(u).time_spent_in_game # NULL
           /\ Cached(u).total_points_home # NULL
           /\ Cached(u).total_points_away # NULL

\* The values the query of get_sessions_for_user computes from the store
SessionCounts(u) == {CountDistinctSessions(committed, u, date) : date \in DateArgs}

\* C24, amended: each cached column of a committed users row is NULL or
\* a value its own query computes from the event history (for
\* num_of_sessions the count of some date argument, for
\* time_spent_in_game the rows of some date argument less the count
\* cached then, times 60, for the points the sums over the matches);
\* total_points_home and total_points_away are both NULL or both not.
C24_EachColumnNullOrComputed ==
    \A u \in UserIds :
        /\ Cached(u).num_of_sessions # NULL
              => Cached(u).num_of_sessions \in SessionCounts(u)
        /\ Cached(u).time_spent_in_game # NULL
              => Cached(u).time_spent_in_game \in
                    {(CountSessionRows(committed, u, date) - sessions) * 60 :
                        date \in DateArgs, sessions \in {0} \cup SessionCounts(u)}
        /\ (Cached(u).total_points_home = NULL) = (Cached(u).total_points_away = NULL)
        /\ Cached(u).total_points_home # NULL
              => /\ Cached(u).total_points_home =
                       3 * Cardinality({r \in committed.match_events :
                                           /\ r.home_user_id = u
                                           /\ r.home_goals_scored > r.away_goals_scored})
                       + Cardinality({r \in committed.match_events :
                                         /\ r.home_user_id = u
                                         /\ r.home_goals_scored = r.away_goals_scored})
                 /\ Cached(u).total_points_away =
                       3 * Cardinality({r \in committed.match_events :
                                           /\ r.away_user_id = u
                                           /\ r.away_goals_scored > r.home_goals_scored})
                       + Cardinality({r \in committed.match_events :
                                         /\ r.away_user_id = u
                                         /\ r.home_goals_scored = r.away_goals_scored})

\* C24 as stated: the four cached columns of a committed users row are
\* all NULL or all non-NULL, and a non-NULL one is a value its query
\* computes from the event history.
C24_AllOrNothingAndComputed == AllOrNothing /\ C24_EachColumnNullOrComputed

\* get_game_stats was answered for a store with a match u1 won at home:
\* num_of_sessions and the points of u1 are committed, 3 of them at
\* home, and time_spent_in_game is not
C24_Witness ==
    /\ returned.op = "get_game_stats"
    /\ returned.failed = {}
    /\ Cached("u1").num_of_sessions # NULL
    /\ Cached("u1").time_spent_in_game = NULL
    /\ Cached("u1").total_points_home = 3
    /\ Cached("u1").total_points_away = 0

\* The keys a calculator that did not raise has put into the dictionary;
\* UsersWithMostPoints returns an empty dictionary when there is no user
KeysOf(name) ==
    IF name = "UsersWithMostPoints" /\ committed.users = <<>> THEN {}
    ELSE ResultKeys[name]

\* The calculators of the service that answered
CalculatorsOf(op) == IF op = "get_user_stats" THEN UserCalculators ELSE GameCalculators

\* C30: get_user_stats and get_game_stats return a dictionary, having run
\* every calculator of the factory once and in its order; for every
\* calculator that raised the dictionary holds '<Class>_error', and for
\* every other calculator the keys of its result and no error key.
C30_FailingCalculatorIsolated ==
    returned.op \in {"get_user_stats", "get_game_stats"}
        => /\ ~returned.raised
           /\ returned.ran = CalculatorsOf(returned.op)
           /\ \A name \in Range(CalculatorsOf(returned.op)) :
                 IF name \in returned.failed
                 THEN ErrorKey[name] \in DOMAIN returned.value
                 ELSE /\ KeysOf(name) \subseteq DOMAIN returned.value
                      /\ ErrorKey[name] \notin DOMAIN returned.value

\* get_user_stats with a date for a registered user: PointsCalculator
\* raised, the calculators before and after it gave their results
C30_Witness ==
    /\ returned.op = "get_user_stats"
    /\ returned.failed = {"PointsCalculator"}
    /\ DOMAIN returned.value =
          {"country", "registration_datetime", "timezone", "days_since_last_login",
           "sessions", "time_spent_in_game", "PointsCalculator_error",
           "match_time_percentage"}

\* C39: whatever was ingested, recomputed and queried before, with or
\* without a date, the value get_time_spent_in_game returns and stores
\* in users.time_spent_in_game is not negative.
C39_TimeSpentNotNegative ==
    /\ returned.op = "get_time_spent_in_game" => returned.value >= 0
    /\ \A u \in UserIds :
          cache[u].time_spent_in_game = NULL \/ cache[u].time_spent_in_game >= 0

\* home plus away points of user u, computed from match_events
TotalPoints(d, u) == TotalPointsHome(d, u) + TotalPointsAway(d, u)

\* The users whose total points are the maximum over all users
UsersAtMaximum(d) ==
    {u \in Range(d.users) :
        \A v \in Range(d.users) : TotalPoints(d, v) <= TotalPoints(d, u)}

\* C31: the result of UsersWithMostPoints.calculate holds every user
\* whose total points equal the maximum over all users, all of them when
\* several users tie.
C31_EveryTiedUserReported ==
    (/\ returned.op = "get_game_stats"
     /\ "UsersWithMostPoints" \notin returned.failed
     /\ committed.users # <<>>)
        => {returned.value.user_with_most_points} = UsersAtMaximum(committed)

\* Matches u played at home and won, drew at home, played away and won,
\* drew away
HomeWins(d, u) ==
    {r \in d.match_events :
        r.home_user_id = u /\ r.home_goals_scored > r.away_goals_scored}
HomeDraws(d, u) ==
    {r \in d.match_events :
        r.home_user_id = u /\ r.home_goals_scored = r.away_goals_scored}
AwayWins(d, u) ==
    {r \in d.match_events :
        r.away_user_id = u /\ r.away_goals_scored > r.home_goals_scored}
AwayDraws(d, u) ==
    {r \in d.match_events :
        r.away_user_id = u /\ r.home_goals_scored = r.away_goals_scored}

\* C32: without a date get_total_points returns (H, A), H being 3 for
\* every match the user won at home plus 1 for every match the user drew
\* at home, A the same for the matches played away; a draw of a match the
\* user did not play in counts for nothing.
C32_PointsOfOwnMatches ==
    (returned.op = "get_total_points" /\ returned.date = NoDate)
        => /\ ~returned.raised
           /\ returned.value =
                 <<3 * Cardinality(HomeWins(committed, returned.user))
                     + Cardinality(HomeDraws(committed, returned.user)),
                   3 * Cardinality(AwayWins(committed, returned.user))
                     + Cardinality(AwayDraws(committed, returned.user))>>

\* The points of a user without cached points who drew one match at
\* home, when the other match, between two other users, was a draw too
C32_Witness ==
    /\ returned.op = "get_total_points"
    /\ queries = 1
    /\ Cardinality(HomeDraws(committed, returned.user)) = 1
    /\ \E r \in committed.match_events :
          /\ returned.user \notin {r.home_user_id, r.away_user_id}
          /\ r.home_goals_scored = r.away_goals_scored
    /\ returned.value = <<1, 0>>

\* C37: a match event (with a new event_id and a match_id) is inserted
\* into match_events exactly when its home_user_id and its away_user_id
\* are both in users when it is processed, a match of a user against
\* itself included.
C37_MatchInsertedIffUsersExist ==
    pc = "loading" =>
        \A l \in Lines :
            (NewMatch(l) /\ Has(l, "match_id"))
                => LET r == LoopBody(db, timezones, event_ids, l)
                   IN (\E x \in r.db.match_events : x.event_id = l.event_id)
                         <=> {l.home_user_id, l.away_user_id} \subseteq Range(db.users)

\* C38: the error list a call of process_file_and_insert reports at its
\* end holds entries for lines of that call's file only.  The call
\* reports the whole list and every step appends to it, so the claim is
\* that no entry of an earlier call is in the list when a call starts.
C38_ReportOfThisFileOnly ==
    [][(pc = "idle" /\ pc' = "loading") => ERROR_MESSAGES' = <<>>]_vars

----------------------------------------------------------------------------
(* Properties of a recompute pass *)

\* C33: on a store without any session_ping fetch_session_events returns
\* (an empty list) without raising, update_session_ids_in_db changes
\* nothing and initialize_database completes.
C33_RecomputeWithoutPingsCompletes ==
    ("fetch_session_events" \in called /\ committed.session_events = <<>>)
        => /\ pc # "IndexError"
           /\ session_events_list = <<>>

\* C34: a recompute pass is all-or-nothing: no committed state holds the
\* session_durations the running pass wrote without the session_ids of
\* that pass, so until update_session_ids_in_db has committed (and when
\* it fails) the committed rows are those the pass started from.
C34_PassCommittedAsOne ==
    pc \in {"durations", "fetched"} => committed.session_events = before_pass

\* A step of a recompute pass: update_session_duration,
\* fetch_session_events or update_session_ids_in_db
PassStep ==
    \/ pc = "idle" /\ pc' = "durations"
    \/ pc = "durations" /\ pc' \in {"fetched", "IndexError"}
    \/ pc = "fetched" /\ pc' = "idle"

\* Tables d and e differ in nothing but the session_id and
\* session_duration of rows of session_events
SameButSessionColumns(d, e) ==
    /\ e.users = d.users
    /\ e.events = d.events
    /\ e.registration_events = d.registration_events
    /\ e.match_events = d.match_events
    /\ Len(e.session_events) = Len(d.session_events)
    /\ \A i \in Rows(d) :
          /\ e.session_events[i].event_id = d.session_events[i].event_id
          /\ e.session_events[i].user_num = d.session_events[i].user_num
          /\ e.session_events[i].user_id = d.session_events[i].user_id

\* C35: a recompute pass inserts and deletes no row and changes nothing
\* but session_id and session_duration of the rows of session_events.
C35_PassWritesSessionColumnsOnly ==
    [][PassStep => /\ SameButSessionColumns(committed, committed')
                   /\ UNCHANGED <<timezones, cache, cache_committed>>]_vars

\* A pass is done on a store with pings of two users and their match:
\* it wrote the session_ids
C35_Witness ==
    /\ pc = "idle"
    /\ passes >= 1
    /\ committed.match_events # {}
    /\ \A i \in Rows(committed) : committed.session_events[i].session_id # NULL

\* The session_ids of the rows of session_events
SessionIdsOf(d) == {d.session_events[i].session_id : i \in Rows(d)}

\* C36: after a recompute pass over a table session_events that is not
\* empty the session_ids are exactly 1..K for a K >= 1, and no
\* session_id is carried by pings of two users.
C36_IdsDenseAndOfOneUser ==
    (pc = "idle" /\ passes >= 1 /\ committed.session_events # <<>>)
        => /\ \E K \in 1..Len(committed.session_events) :
                 SessionIdsOf(committed) = 1..K
           /\ \A i, j \in Rows(committed) :
                 committed.session_events[i].session_id =
                     committed.session_events[j].session_id
                 => committed.session_events[i].user_id =
                        committed.session_events[j].user_id

\* A pass over pings of two users, one of them with two pings in one
\* session: the ids 1 and 2 on three rows
C36_Witness ==
    /\ pc = "idle"
    /\ passes >= 1
    /\ Len(committed.session_events) = 3
    /\ {committed.session_events[i].user_id : i \in Rows(committed)} = UserIds
    /\ SessionIdsOf(committed) = 1..2

----------------------------------------------------------------------------
(* Properties of the validate methods *)

\* validate has returned for an event_data of the given type
Validated(type) ==
    /\ pc = "validated"
    /\ returned.arg.event_type = type

\* C25: validate of a session_ping returns a pair (ok, reason), ok being
\* true exactly when user_id is present, with a reason when ok is false.
C25_SessionPingValidate ==
    Validated("session_ping") =>
        /\ Len(returned.value) = 2
        /\ returned.value[1] = Has(returned.arg, "user_id")
        /\ ~returned.value[1] => returned.value[2] # ""

\* C26: validate of a registration returns ok = true exactly when
\* country, user_id and device_os are present and device_os is iOS,
\* Android or Web, and a non-empty reason with ok = false.
C26_RegistrationValidate ==
    Validated("registration") =>
        /\ Len(returned.value) = 2
        /\ returned.value[1] =
              (/\ {"country", "user_id", "device_os"} \subseteq returned.arg.keys
               /\ returned.arg.device_os \in {"iOS", "Android", "Web"})
        /\ ~returned.value[1] => returned.value[2] # ""

\* The goal count key of e is absent or a non-negative int
GoalOk(e, key, v) == ~Has(e, key) \/ (v # NotInt /\ v >= 0)

\* C27: validate of a match returns ok = true exactly when match_id,
\* home_user_id and away_user_id are present and each goal count that is
\* present is a non-negative integer, and a non-empty reason with ok =
\* false.
C27_MatchValidate ==
    Validated("match") =>
        /\ Len(returned.value) = 2
        /\ returned.value[1] =
              (/\ {"match_id", "home_user_id", "away_user_id"} \subseteq returned.arg.keys
               /\ GoalOk(returned.arg, "home_goals_scored", returned.arg.home_goals_scored)
               /\ GoalOk(returned.arg, "away_goals_scored", returned.arg.away_goals_scored))
        /\ ~returned.value[1] => returned.value[2] # ""

\* A match with its three ids and an away_goals_scored that is no int was
\* refused
C27_Witness ==
    /\ Validated("match")
    /\ {"match_id", "home_user_id", "away_user_id", "away_goals_scored"}
          \subseteq returned.arg.keys
    /\ GoalOk(returned.arg, "home_goals_scored", returned.arg.home_goals_scored)
    /\ returned.arg.away_goals_scored = NotInt
    /\ returned.value[1] = FALSE

====
